---- MODULE Spec2Model ----
(***************************************************************************)
(* A model of nats/js/kv.py: the KeyValue store (get, put, update, delete, *)
(* purge, status) and the KeyValueManager (key_value, create_key_value,    *)
(* delete_key_value), layered on the JetStream log substrate.              *)
(*                                                                         *)
(* Names (bucket, stream, subject, key) are sequences of one-character     *)
(* strings, so that the f-strings of the source are concatenations and the *)
(* stream's subject filter is a real prefix match.  Payloads are sequences *)
(* of bytes (0..255).                                                      *)
(***************************************************************************)
EXTENDS Integers, Sequences, FiniteSets, TLC

(***************************************************************************)
(* Bounds of the model.                                                    *)
(***************************************************************************)
\* the largest sequence number a stream hands out before appends stop
MaxSeq == 3

(***************************************************************************)
(* Program constants (kv.py:23-27, and the two imported header names).     *)
(***************************************************************************)
KV_OP == "KV-Operation"
KV_DEL == "DEL"
KV_PURGE == "PURGE"
MSG_ROLLUP_SUBJECT == "sub"
MSG_ROLLUP_ALL == "all"
KV_EXPECTED_HDR == "Nats-Expected-Last-Subject-Sequence"
MSG_ROLLUP_HDR == "Nats-Rollup"
\* the substrate's ticks per second (nanoseconds)
NANOS == 1000000000

(***************************************************************************)
(* Inputs.                                                                 *)
(***************************************************************************)
\* the buckets a caller creates, and the names it looks up and deletes
CreateNames == { << "a" >> }
BucketNames == CreateNames \cup { << "K", "V", "_", "a" >> }
Keys == { << "k" >>, << "j" >> }
\* payloads: b"" and b"h"
Values == { <<>>, << 104 >> }

\* Optional[...]: Python's None against a present value
None == [none |-> TRUE, val |-> 0]
Some(x) == [none |-> FALSE, val |-> x]
\* Optional[bytes]
NoBytes == [none |-> TRUE, bytes |-> <<>>]
SomeBytes(b) == [none |-> FALSE, bytes |-> b]
\* Python truthiness of an Optional[int]
Truthy(o) == ~o.none /\ o.val # 0

\* (history, ttl) as a caller gives them to create_key_value
ConfigInputs ==
    { << None, None >>, << Some(0), Some(2) >>, << Some(1), None >>,
      << Some(2), None >>, << Some(-1), None >> }
\* every revision a caller may expect
Lasts == 0 .. MaxSeq + 1

(***************************************************************************)
(* Text.                                                                   *)
(***************************************************************************)
IsPrefix(p, s) == Len(p) <= Len(s) /\ SubSeq(s, 1, Len(p)) = p

Digit(d) == CASE d = 0 -> "0" [] d = 1 -> "1" [] d = 2 -> "2" [] d = 3 -> "3"
              [] d = 4 -> "4" [] d = 5 -> "5" [] d = 6 -> "6" [] d = 7 -> "7"
              [] d = 8 -> "8" [] d = 9 -> "9"

DigitVal(c) == CASE c = "0" -> 0 [] c = "1" -> 1 [] c = "2" -> 2 [] c = "3" -> 3
                 [] c = "4" -> 4 [] c = "5" -> 5 [] c = "6" -> 6 [] c = "7" -> 7
                 [] c = "8" -> 8 [] c = "9" -> 9

\* str(n) of a non-negative int (kv.py:158)
RECURSIVE str(_)
str(n) == IF n < 10 THEN << Digit(n) >> ELSE Append(str(n \div 10), Digit(n % 10))

\* the substrate's reading of a decimal header value
RECURSIVE ParseInt(_)
ParseInt(s) ==
    IF Len(s) = 1 THEN DigitVal(s[1])
    ELSE 10 * ParseInt(SubSeq(s, 1, Len(s) - 1)) + DigitVal(s[Len(s)])

(***************************************************************************)
(* base64: the substrate hands a record's payload back base64-encoded, and *)
(* get decodes it.  Symbols are the sextets 0..63 and the pad.             *)
(***************************************************************************)
B64Pad == 64

RECURSIVE B64Encode(_)
B64Encode(b) ==
    IF Len(b) = 0 THEN <<>>
    ELSE IF Len(b) = 1 THEN
        << b[1] \div 4, (b[1] % 4) * 16, B64Pad, B64Pad >>
    ELSE IF Len(b) = 2 THEN
        << b[1] \div 4, (b[1] % 4) * 16 + b[2] \div 16, (b[2] % 16) * 4, B64Pad >>
    ELSE
        << b[1] \div 4, (b[1] % 4) * 16 + b[2] \div 16,
           (b[2] % 16) * 4 + b[3] \div 64, b[3] % 64 >>
        \o B64Encode(SubSeq(b, 4, Len(b)))

RECURSIVE b64decode(_)
b64decode(s) ==
    IF Len(s) < 4 THEN <<>>
    ELSE LET b1 == s[1] * 4 + s[2] \div 16
             b2 == (s[2] % 16) * 16 + s[3] \div 4
             b3 == (s[3] % 4) * 64 + s[4]
         IN  IF s[3] = B64Pad THEN << b1 >>
             ELSE IF s[4] = B64Pad THEN << b1, b2 >>
             ELSE << b1, b2, b3 >> \o b64decode(SubSeq(s, 5, Len(s)))

(***************************************************************************)
(* Headers: a Python dict from header name to value; no headers is the     *)
(* function with the empty domain.                                         *)
(***************************************************************************)
NoHeaders == [n \in {} |-> ""]
HdrGet(h, n) == IF n \in DOMAIN h THEN h[n] ELSE ""

(***************************************************************************)
(* The log substrate (JetStream), as the contract of the calls kv.py makes *)
(* on it.  A stream is its configuration, the records it retains and the   *)
(* last sequence number it assigned.                                       *)
(***************************************************************************)
VARIABLES
    streams,    \* the substrate: stream name -> stream, for the streams that exist
    handles,    \* the KeyValue handles returned so far
    res,        \* the last call a sequential caller made, with what it got back
    inflight,   \* racing writers: the update each has sent and not yet got back
    done        \* racing writers: what the last update of each came back with

vars == << streams, handles, res, inflight, done >>

\* the subject filter "prefix>" covers every subject under the prefix
Matches(pattern, subject) ==
    LET pre == SubSeq(pattern, 1, Len(pattern) - 1)
    IN  /\ pattern[Len(pattern)] = ">"
        /\ IsPrefix(pre, subject)
        /\ Len(subject) > Len(pre)

Overlaps(p, q) ==
    LET pp == SubSeq(p, 1, Len(p) - 1)
        qq == SubSeq(q, 1, Len(q) - 1)
    IN  IsPrefix(pp, qq) \/ IsPrefix(qq, pp)

\* the streams whose subject filter covers the subject
StreamsOf(S, subject) ==
    { n \in DOMAIN S : \E p \in S[n].config.subjects : Matches(p, subject) }

\* the records of one subject, as positions in the log
Positions(msgs, subject) == { i \in 1 .. Len(msgs) : msgs[i].subject = subject }

\* the sequence number of the subject's latest record, 0 when it has none
HeadSeq(msgs, subject) ==
    LET at == Positions(msgs, subject)
    IN  IF at = {} THEN 0
        ELSE msgs[CHOOSE i \in at : \A j \in at : j <= i].seq

RECURSIVE Without(_, _)
\* the log without the records at the positions in drop
Without(msgs, drop) ==
    IF Len(msgs) = 0 THEN <<>>
    ELSE LET n == Len(msgs)
             front == Without(SubSeq(msgs, 1, n - 1), drop)
         IN  IF n \in drop THEN front ELSE Append(front, msgs[n])

\* retention: at most limit records per subject, the oldest go first
Retain(msgs, subject, limit) ==
    LET at == Positions(msgs, subject)
        excess == Cardinality(at) - limit
    IN  IF limit < 1 \/ excess <= 0 THEN msgs
        ELSE Without(msgs, { i \in at : Cardinality({ j \in at : j <= i }) <= excess })

PubAck(stream, sq) == [stream |-> stream, seq |-> sq, duplicate |-> FALSE]
NoAck == PubAck(<<>>, 0)

\* js.publish(subject, payload, headers): the conditional append
publish(S, subject, payload, hdrs) ==
    LET to == StreamsOf(S, subject)
    IN  IF to = {} THEN [streams |-> S, err |-> "NoStreamResponseError", pa |-> NoAck]
        ELSE
        LET n == CHOOSE x \in to : TRUE
            st == S[n]
            expected == IF KV_EXPECTED_HDR \in DOMAIN hdrs
                        THEN ParseInt(hdrs[KV_EXPECTED_HDR]) ELSE -1
            rollup == HdrGet(hdrs, MSG_ROLLUP_HDR)
            sq == st.last_seq + 1
            kept == IF rollup = MSG_ROLLUP_SUBJECT
                    THEN Without(st.msgs, Positions(st.msgs, subject))
                    ELSE IF rollup = MSG_ROLLUP_ALL THEN <<>>
                    ELSE st.msgs
            rec == [subject |-> subject, seq |-> sq, data |-> payload, headers |-> hdrs]
            after == Retain(Append(kept, rec), subject, st.config.max_msgs_per_subject)
        IN  IF expected # -1 /\ expected # HeadSeq(st.msgs, subject)
            THEN [streams |-> S, err |-> "Conflict", pa |-> NoAck]
            ELSE IF rollup # "" /\ ~st.config.allow_rollup_hdrs
            THEN [streams |-> S, err |-> "RollupNotPermitted", pa |-> NoAck]
            ELSE [streams |-> [S EXCEPT ![n] = [st EXCEPT !.msgs = after, !.last_seq = sq]],
                  err |-> "", pa |-> PubAck(n, sq)]

NoMsg == [subject |-> <<>>, seq |-> 0, data |-> <<>>, headers |-> NoHeaders]

\* js.get_last_msg(stream, subject): the subject's latest record, payload in base64
get_last_msg(S, stream, subject) ==
    IF stream \notin DOMAIN S THEN [err |-> "NotFoundError", msg |-> NoMsg]
    ELSE LET msgs == S[stream].msgs
             at == Positions(msgs, subject)
         IN  IF at = {} THEN [err |-> "NotFoundError", msg |-> NoMsg]
             ELSE LET m == msgs[CHOOSE i \in at : \A j \in at : j <= i]
                  IN  [err |-> "",
                       msg |-> [subject |-> m.subject, seq |-> m.seq,
                                data |-> B64Encode(m.data), headers |-> m.headers]]

NoConfig == [name |-> <<>>, subjects |-> {}, max_msgs_per_subject |-> 0,
             max_age |-> None, num_replicas |-> None,
             allow_rollup_hdrs |-> FALSE, deny_delete |-> FALSE]
NoInfo == [config |-> NoConfig, state |-> [messages |-> 0, last_seq |-> 0]]

\* js.stream_info(name)
stream_info(S, name) ==
    IF name \notin DOMAIN S THEN [err |-> "NotFoundError", si |-> NoInfo]
    ELSE [err |-> "",
          si |-> [config |-> S[name].config,
                  state |-> [messages |-> Len(S[name].msgs),
                             last_seq |-> S[name].last_seq]]]

\* js.add_stream(config)
add_stream(S, config) ==
    IF config.name \in DOMAIN S
    THEN [streams |-> S,
          err |-> IF S[config.name].config = config THEN "" ELSE "StreamNameInUse"]
    ELSE IF \E n \in DOMAIN S : \E p \in S[n].config.subjects :
                \E q \in config.subjects : Overlaps(p, q)
    THEN [streams |-> S, err |-> "SubjectsOverlap"]
    ELSE [streams |-> [n \in DOMAIN S \cup { config.name } |->
                          IF n = config.name
                          THEN [config |-> config, msgs |-> <<>>, last_seq |-> 0]
                          ELSE S[n]],
          err |-> ""]

\* js.delete_stream(name)
delete_stream(S, name) ==
    IF name \notin DOMAIN S THEN [streams |-> S, err |-> "NotFoundError"]
    ELSE [streams |-> [n \in DOMAIN S \ { name } |-> S[n]], err |-> ""]

(***************************************************************************)
(* kv.py: the values the calls return.                                     *)
(***************************************************************************)
\* KeyValue.Entry (kv.py:61-69)
Entry(bucket, key, value, revision) ==
    [bucket |-> bucket, key |-> key, value |-> value, revision |-> revision]
NoEntry == Entry(<<>>, <<>>, NoBytes, 0)

\* KeyValue.__init__ (kv.py:115-119)
KeyValue(name, stream, pre) == [name |-> name, stream |-> stream, pre |-> pre]
NoKV == KeyValue(<<>>, <<>>, <<>>)

\* KeyValue.BucketStatus (kv.py:71-109)
BucketStatus(nfo, bucket) == [nfo |-> nfo, bucket |-> bucket]
NoStatus == BucketStatus(NoInfo, <<>>)
values(kvs) == kvs.nfo.state.messages
history(kvs) == kvs.nfo.config.max_msgs_per_subject

\* a float: its whole part and what is left over, in ticks of 1/NANOS
Float(whole, part) == [err |-> "", whole |-> whole, part |-> part]

\* ttl, were it to take the max age for milliseconds
ttl_Millis(kvs) ==
    LET max_age == kvs.nfo.config.max_age
    IN  IF max_age.none THEN [Float(0, 0) EXCEPT !.err = "TypeError"]
        ELSE Float(max_age.val \div 1000000, max_age.val % 1000000)

\* KeyValue.BucketStatus.ttl (kv.py:100-105): max_age / 1_000_000_000, a true
\* division; where the stream has no max age it divides None
ttl(kvs) ==
    LET max_age == kvs.nfo.config.max_age
    IN  IF max_age.none THEN [Float(0, 0) EXCEPT !.err = "TypeError"]
        ELSE Float(max_age.val \div NANOS, max_age.val % NANOS)

\* what a call comes back with: "ok" and what it returned, or the error raised
\* (calls: the substrate calls it awaited on the way, in order)
Returned(S) ==
    [streams |-> S, outcome |-> "ok", ret |-> 0, entry |-> NoEntry, kdop |-> "",
     kv |-> NoKV, kvs |-> NoStatus, pa |-> NoAck, calls |-> <<>>]
Raised(S, err) == [Returned(S) EXCEPT !.outcome = err]
\* the substrate acknowledged the append: the call goes on with the ack
Acked(r) == [Returned(r.streams) EXCEPT !.pa = r.pa]
\* `await self._js.<call>(...)`: what follows it comes after one more substrate call
Awaited(call, x) == [x EXCEPT !.calls = << call >> \o @]

KVPrefix == << "$", "K", "V", "." >>
StreamPrefix == << "K", "V", "_" >>

(***************************************************************************)
(* kv.py: KeyValue.                                                        *)
(***************************************************************************)
\* get, were it to take only the DEL marker for a tombstone
get_OnlyDel(S, h, key) ==
    LET r == get_last_msg(S, h.stream, h.pre \o key)
        msg == r.msg
        data == IF Len(msg.data) > 0 THEN SomeBytes(b64decode(msg.data)) ELSE NoBytes
        entry == Entry(h.name, key, data, msg.seq)
        op == HdrGet(msg.headers, KV_OP)
    IN  Awaited("get_last_msg",
        IF r.err # "" THEN Raised(S, r.err)
        ELSE IF DOMAIN msg.headers # {} /\ op = KV_DEL
        THEN [Raised(S, "KeyDeletedError") EXCEPT !.entry = entry, !.kdop = op]
        ELSE [Returned(S) EXCEPT !.entry = entry])

\* get, were it to answer a missing record with an empty Entry
get_MissingAsEmpty(S, h, key) ==
    LET r == get_last_msg(S, h.stream, h.pre \o key)
        msg == r.msg
        data == IF Len(msg.data) > 0 THEN SomeBytes(b64decode(msg.data)) ELSE NoBytes
        entry == Entry(h.name, key, data, msg.seq)
        op == HdrGet(msg.headers, KV_OP)
    IN  Awaited("get_last_msg",
        IF DOMAIN msg.headers # {} /\ (op = KV_DEL \/ op = KV_PURGE)
        THEN [Raised(S, "KeyDeletedError") EXCEPT !.entry = entry, !.kdop = op]
        ELSE [Returned(S) EXCEPT !.entry = entry])

\* get, were it to take a record without payload for a deletion
get_EmptyAsDeleted(S, h, key) ==
    LET r == get_last_msg(S, h.stream, h.pre \o key)
        msg == r.msg
        data == IF Len(msg.data) > 0 THEN SomeBytes(b64decode(msg.data)) ELSE NoBytes
        entry == Entry(h.name, key, data, msg.seq)
        op == HdrGet(msg.headers, KV_OP)
    IN  Awaited("get_last_msg",
        IF r.err # "" THEN Raised(S, r.err)
        ELSE IF data = NoBytes \/ (DOMAIN msg.headers # {} /\ (op = KV_DEL \/ op = KV_PURGE))
        THEN [Raised(S, "KeyDeletedError") EXCEPT !.entry = entry, !.kdop = op]
        ELSE [Returned(S) EXCEPT !.entry = entry])

\* get, were it to ask the substrate once more when the first answer is an error
get_Retry(S, h, key) ==
    LET first == get_last_msg(S, h.stream, h.pre \o key)
        r == IF first.err # "" THEN get_last_msg(S, h.stream, h.pre \o key) ELSE first
        msg == r.msg
        data == IF Len(msg.data) > 0 THEN SomeBytes(b64decode(msg.data)) ELSE NoBytes
        entry == Entry(h.name, key, data, msg.seq)
        op == HdrGet(msg.headers, KV_OP)
        again == IF first.err # "" THEN << "get_last_msg" >> ELSE <<>>
    IN  Awaited("get_last_msg",
        IF r.err # "" THEN [Raised(S, r.err) EXCEPT !.calls = again]
        ELSE IF DOMAIN msg.headers # {} /\ (op = KV_DEL \/ op = KV_PURGE)
        THEN [Raised(S, "KeyDeletedError") EXCEPT !.entry = entry, !.kdop = op]
        ELSE [Returned(S) EXCEPT !.entry = entry])

\* KeyValue.get (kv.py:121-143)
get(S, h, key) ==
    LET r == get_last_msg(S, h.stream, h.pre \o key)
        msg == r.msg
        data == IF Len(msg.data) > 0 THEN SomeBytes(b64decode(msg.data)) ELSE NoBytes
        entry == Entry(h.name, key, data, msg.seq)
        op == HdrGet(msg.headers, KV_OP)
    IN  Awaited("get_last_msg",
        IF r.err # "" THEN Raised(S, r.err)
        ELSE IF DOMAIN msg.headers # {} /\ (op = KV_DEL \/ op = KV_PURGE)
        THEN [Raised(S, "KeyDeletedError") EXCEPT !.entry = entry, !.kdop = op]
        ELSE [Returned(S) EXCEPT !.entry = entry])

\* KeyValue.put (kv.py:145-151)
put(S, h, key, value) ==
    LET r == publish(S, h.pre \o key, value, NoHeaders)
    IN  Awaited("publish",
        IF r.err # "" THEN Raised(r.streams, r.err)
        ELSE IF "seq" \notin DOMAIN r.pa
        THEN [Acked(r) EXCEPT !.outcome = "AttributeError"]
        ELSE [Acked(r) EXCEPT !.ret = r.pa.seq])

\* KeyValue.update (kv.py:153-160)
update(S, h, key, value, lastv) ==
    LET hdrs == KV_EXPECTED_HDR :> str(lastv)
        r == publish(S, h.pre \o key, value, hdrs)
    IN  Awaited("publish",
        IF r.err # "" THEN Raised(r.streams, r.err)
        ELSE IF "sequence" \notin DOMAIN r.pa
        THEN [Acked(r) EXCEPT !.outcome = "AttributeError"]
        ELSE [Acked(r) EXCEPT !.ret = r.pa.sequence])

\* delete, were it to roll the subject up as purge does
delete_WithRollup(S, h, key) ==
    LET hdrs == (KV_OP :> KV_DEL) @@ (MSG_ROLLUP_HDR :> MSG_ROLLUP_SUBJECT)
        r == publish(S, h.pre \o key, <<>>, hdrs)
    IN  Awaited("publish",
        IF r.err # "" THEN Raised(r.streams, r.err) ELSE Acked(r))

\* KeyValue.delete (kv.py:162-169)
delete(S, h, key) ==
    LET hdrs == KV_OP :> KV_DEL
        r == publish(S, h.pre \o key, <<>>, hdrs)
    IN  Awaited("publish",
        IF r.err # "" THEN Raised(r.streams, r.err) ELSE Acked(r))

\* purge, were it to leave out the rollup header
purge_NoRollup(S, h, key) ==
    LET hdrs == KV_OP :> KV_PURGE
        r == publish(S, h.pre \o key, <<>>, hdrs)
    IN  Awaited("publish",
        IF r.err # "" THEN Raised(r.streams, r.err) ELSE Acked(r))

\* purge, were its rollup to take in the whole stream
purge_RollupAll(S, h, key) ==
    LET hdrs == (KV_OP :> KV_PURGE) @@ (MSG_ROLLUP_HDR :> MSG_ROLLUP_ALL)
        r == publish(S, h.pre \o key, <<>>, hdrs)
    IN  Awaited("publish",
        IF r.err # "" THEN Raised(r.streams, r.err) ELSE Acked(r))

\* KeyValue.purge (kv.py:171-179)
purge(S, h, key) ==
    LET hdrs == (KV_OP :> KV_PURGE) @@ (MSG_ROLLUP_HDR :> MSG_ROLLUP_SUBJECT)
        r == publish(S, h.pre \o key, <<>>, hdrs)
    IN  Awaited("publish",
        IF r.err # "" THEN Raised(r.streams, r.err) ELSE Acked(r))

\* KeyValue.status (kv.py:181-189)
status(S, h) ==
    LET r == stream_info(S, h.stream)
    IN  Awaited("stream_info",
        IF r.err # "" THEN Raised(S, r.err)
        ELSE [Returned(S) EXCEPT !.kvs = BucketStatus(r.si, h.name)])

(***************************************************************************)
(* kv.py: KeyValueManager.                                                 *)
(***************************************************************************)
\* key_value, were its retention check off by one
key_value_OffByOne(S, bucket) ==
    LET stream == StreamPrefix \o bucket
        r == stream_info(S, stream)
    IN  Awaited("stream_info",
        IF r.err = "NotFoundError" THEN Raised(S, "BucketNotFoundError")
        ELSE IF r.err # "" THEN Raised(S, r.err)
        ELSE IF r.si.config.max_msgs_per_subject <= 1 THEN Raised(S, "BadBucketError")
        ELSE [Returned(S) EXCEPT
                !.kv = KeyValue(bucket, stream, KVPrefix \o bucket \o << "." >>)])

\* KeyValueManager.key_value (kv.py:208-222)
key_value(S, bucket) ==
    LET stream == StreamPrefix \o bucket
        r == stream_info(S, stream)
    IN  Awaited("stream_info",
        IF r.err = "NotFoundError" THEN Raised(S, "BucketNotFoundError")
        ELSE IF r.err # "" THEN Raised(S, r.err)
        ELSE IF r.si.config.max_msgs_per_subject < 1 THEN Raised(S, "BadBucketError")
        ELSE [Returned(S) EXCEPT
                !.kv = KeyValue(bucket, stream, KVPrefix \o bucket \o << "." >>)])

\* the normalisation, were it to default the history only when it is unset
Normalised_ZeroKept(params) ==
    [bucket |-> params.bucket,
     history |-> IF params.history.none THEN Some(1) ELSE params.history,
     replicas |-> IF ~Truthy(params.replicas) THEN Some(1) ELSE params.replicas,
     ttl |-> IF Truthy(params.ttl) THEN Some(params.ttl.val * NANOS) ELSE params.ttl]

\* api.KeyValueConfig, as create_key_value normalises it (kv.py:228-234)
Normalised(params) ==
    [bucket |-> params.bucket,
     history |-> IF ~Truthy(params.history) THEN Some(1) ELSE params.history,
     replicas |-> IF ~Truthy(params.replicas) THEN Some(1) ELSE params.replicas,
     ttl |-> IF Truthy(params.ttl) THEN Some(params.ttl.val * NANOS) ELSE params.ttl]

\* api.StreamConfig, as create_key_value builds it (kv.py:236-248)
StreamConfig(config) ==
    [name |-> StreamPrefix \o config.bucket,
     subjects |-> { KVPrefix \o config.bucket \o << ".", ">" >> },
     max_msgs_per_subject |-> config.history.val,
     max_age |-> config.ttl,
     num_replicas |-> config.replicas,
     allow_rollup_hdrs |-> TRUE,
     deny_delete |-> TRUE]

\* KeyValueManager.create_key_value (kv.py:224-256)
create_key_value(S, params) ==
    LET config == Normalised(params)
        stream == StreamConfig(config)
        r == add_stream(S, stream)
    IN  Awaited("add_stream",
        IF r.err # "" THEN Raised(r.streams, r.err)
        ELSE [Returned(r.streams) EXCEPT
                !.kv = KeyValue(config.bucket, stream.name,
                                KVPrefix \o config.bucket \o << "." >>)])

\* KeyValueManager.delete_key_value (kv.py:258-263)
delete_key_value(S, bucket) ==
    LET r == delete_stream(S, bucket)
    IN  Awaited("delete_stream",
        IF r.err # "" THEN Raised(r.streams, r.err) ELSE Returned(r.streams))

(***************************************************************************)
(* The state machine.  A sequential caller makes one call at a time; each  *)
(* call is one round trip to the substrate, so each is one step.           *)
(***************************************************************************)
\* the number of writers that race on update
NumWriters == 2
Writers == 1 .. NumWriters

CreateParams ==
    { [bucket |-> b, history |-> c[1], ttl |-> c[2], replicas |-> None] :
        b \in CreateNames, c \in ConfigInputs }

\* a call as its caller sees it: what was called on what, and what came back
\* (acked: the sequence number in the substrate's ack, 0 when there was none)
Call(op, h, bucket, key, value, lastv, r) ==
    [op |-> op, h |-> h, bucket |-> bucket, key |-> key, value |-> value,
     last |-> lastv, outcome |-> r.outcome, ret |-> r.ret, entry |-> r.entry,
     kdop |-> r.kdop, kv |-> r.kv, kvs |-> r.kvs, acked |-> r.pa.seq,
     calls |-> r.calls]

NoCall == Call("", NoKV, <<>>, <<>>, <<>>, 0, Returned(<<>>))

NoReq == [active |-> FALSE, h |-> NoKV, key |-> <<>>, value |-> <<>>, last |-> 0]
NoDone == [active |-> FALSE, h |-> NoKV, key |-> <<>>, value |-> <<>>, last |-> 0,
           outcome |-> "", ret |-> 0, acked |-> 0]

Init ==
    /\ streams = [n \in {} |-> 0]
    /\ handles = {}
    /\ res = NoCall
    /\ inflight = [w \in Writers |-> NoReq]
    /\ done = [w \in Writers |-> NoDone]

RECURSIVE TotalSeq(_, _)
TotalSeq(S, names) ==
    IF names = {} THEN 0
    ELSE LET n == CHOOSE x \in names : TRUE
         IN  S[n].last_seq + TotalSeq(S, names \ { n })

\* appends stop once the streams that exist have handed out MaxSeq sequence numbers
CanAppend(S) == TotalSeq(S, DOMAIN S) < MaxSeq

\* the head of the key as the substrate holds it now
HeadOf(S, h, key) ==
    IF h.stream \in DOMAIN S THEN HeadSeq(S[h.stream].msgs, h.pre \o key) ELSE 0

\* the revisions a caller of update expects: the head, one behind it, one ahead
NearHead(S, h, key) ==
    { x \in Lasts : x - HeadOf(S, h, key) \in { -1, 0, 1 } }

CreateKeyValue(params) ==
    LET r == create_key_value(streams, params)
    IN  /\ streams' = r.streams
        /\ handles' = IF r.outcome = "ok" THEN handles \cup { r.kv } ELSE handles
        /\ res' = Call("create_key_value", NoKV, params.bucket, <<>>, <<>>, 0, r)
        /\ UNCHANGED << inflight, done >>

LookupKeyValue(bucket) ==
    LET r == key_value(streams, bucket)
    IN  /\ handles' = IF r.outcome = "ok" THEN handles \cup { r.kv } ELSE handles
        /\ streams' = r.streams
        /\ res' = Call("key_value", NoKV, bucket, <<>>, <<>>, 0, r)
        /\ UNCHANGED << inflight, done >>

DeleteKeyValue(bucket) ==
    LET r == delete_key_value(streams, bucket)
    IN  /\ streams' = r.streams
        /\ res' = Call("delete_key_value", NoKV, bucket, <<>>, <<>>, 0, r)
        /\ UNCHANGED << handles, inflight, done >>

Get(h, key) ==
    LET r == get(streams, h, key)
    IN  /\ streams' = r.streams
        /\ res' = Call("get", h, h.name, key, <<>>, 0, r)
        /\ UNCHANGED << handles, inflight, done >>

Put(h, key, value) ==
    LET r == put(streams, h, key, value)
    IN  /\ CanAppend(streams)
        /\ streams' = r.streams
        /\ res' = Call("put", h, h.name, key, value, 0, r)
        /\ UNCHANGED << handles, inflight, done >>

Update(h, key, value, lastv) ==
    LET r == update(streams, h, key, value, lastv)
    IN  /\ CanAppend(streams)
        /\ streams' = r.streams
        /\ res' = Call("update", h, h.name, key, value, lastv, r)
        /\ UNCHANGED << handles, inflight, done >>

Delete(h, key) ==
    LET r == delete(streams, h, key)
    IN  /\ CanAppend(streams)
        /\ streams' = r.streams
        /\ res' = Call("delete", h, h.name, key, <<>>, 0, r)
        /\ UNCHANGED << handles, inflight, done >>

Purge(h, key) ==
    LET r == purge(streams, h, key)
    IN  /\ CanAppend(streams)
        /\ streams' = r.streams
        /\ res' = Call("purge", h, h.name, key, <<>>, 0, r)
        /\ UNCHANGED << handles, inflight, done >>

Status(h) ==
    LET r == status(streams, h)
    IN  /\ streams' = r.streams
        /\ res' = Call("status", h, h.name, <<>>, <<>>, 0, r)
        /\ UNCHANGED << handles, inflight, done >>

Next ==
    \/ \E params \in CreateParams : CreateKeyValue(params)
    \/ \E bucket \in BucketNames : LookupKeyValue(bucket)
    \/ \E bucket \in BucketNames : DeleteKeyValue(bucket)
    \/ \E h \in handles, key \in Keys : Get(h, key)
    \/ \E h \in handles, key \in Keys, value \in Values : Put(h, key, value)
    \/ \E h \in handles, key \in Keys, value \in Values :
          \E lastv \in NearHead(streams, h, key) : Update(h, key, value, lastv)
    \/ \E h \in handles, key \in Keys : Delete(h, key)
    \/ \E h \in handles, key \in Keys : Purge(h, key)
    \/ \E h \in handles : Status(h)

Spec == Init /\ [][Next]_vars

(***************************************************************************)
(* Racing writers.  update awaits the substrate once (kv.py:159): a writer *)
(* sends its conditional append, the substrate serves the appends in       *)
(* flight one at a time in any order, and the writer then reads the ack    *)
(* (kv.py:160).  Each writer reads the key's head revision and sends one   *)
(* update that expects it.                                                 *)
(***************************************************************************)
\* no writer has sent its update yet
Quiet == \A w \in Writers : ~inflight[w].active /\ ~done[w].active

UpdateCall(w, h, key, value) ==
    /\ ~inflight[w].active
    /\ ~done[w].active
    /\ inflight' = [inflight EXCEPT ![w] =
                      [active |-> TRUE, h |-> h, key |-> key, value |-> value,
                       last |-> HeadOf(streams, h, key)]]
    /\ UNCHANGED << streams, handles, res, done >>

UpdateReturn(w) ==
    LET q == inflight[w]
        r == update(streams, q.h, q.key, q.value, q.last)
    IN  /\ q.active
        /\ CanAppend(streams)
        /\ streams' = r.streams
        /\ done' = [done EXCEPT ![w] =
                      [active |-> TRUE, h |-> q.h, key |-> q.key, value |-> q.value,
                       last |-> q.last, outcome |-> r.outcome, ret |-> r.ret,
                       acked |-> r.pa.seq]]
        /\ inflight' = [inflight EXCEPT ![w] = NoReq]
        /\ UNCHANGED << handles, res >>

\* the bucket is set up before the race; then the writers race
RaceNext ==
    \/ Quiet /\ \E params \in CreateParams : CreateKeyValue(params)
    \/ Quiet /\ \E h \in handles, key \in Keys, value \in Values : Put(h, key, value)
    \/ \E w \in Writers, h \in handles, key \in Keys, value \in Values :
          UpdateCall(w, h, key, value)
    \/ \E w \in Writers : UpdateReturn(w)

SpecRace == Init /\ [][RaceNext]_vars

(***************************************************************************)
(* Buckets side by side.  A caller creates, looks up and deletes buckets   *)
(* whose names hold the subject separator, and reads and writes keys that  *)
(* hold it, through the handles it was given.                              *)
(***************************************************************************)
\* the bucket names "a" and "a.b", the keys "k" and "b.k"
IsoNames == { << "a" >>, << "a", ".", "b" >> }
IsoKeys == { << "k" >>, << "b", ".", "k" >> }
IsoParams ==
    { [bucket |-> b, history |-> None, ttl |-> None, replicas |-> None] :
        b \in IsoNames }

IsoNext ==
    \/ \E params \in IsoParams : CreateKeyValue(params)
    \/ \E bucket \in IsoNames : LookupKeyValue(bucket)
    \/ \E bucket \in IsoNames \cup { StreamPrefix \o b : b \in IsoNames } :
          DeleteKeyValue(bucket)
    \/ \E h \in handles, key \in IsoKeys : Get(h, key)
    \/ \E h \in handles, key \in IsoKeys, value \in Values : Put(h, key, value)

SpecIso == Init /\ [][IsoNext]_vars

(***************************************************************************)
(* What the claims speak of.                                               *)
(***************************************************************************)
\* the bucket's stream exists
Exists(S, h) == h.stream \in DOMAIN S

\* the records of the key's subject that the bucket's stream retains
Records(S, h, key) ==
    IF Exists(S, h)
    THEN { S[h.stream].msgs[i] : i \in Positions(S[h.stream].msgs, h.pre \o key) }
    ELSE {}

\* the key's latest record, where it has one
Latest(S, h, key) ==
    CHOOSE m \in Records(S, h, key) : \A o \in Records(S, h, key) : o.seq <= m.seq

IsTombstone(m) == HdrGet(m.headers, KV_OP) \in { KV_DEL, KV_PURGE }

\* the last call was op and the substrate took its append
Accepted(op) == res.op = op /\ res.acked > 0

(***************************************************************************)
(* C1: update(key, value, last) succeeds if and only if last is the        *)
(* revision of the key's latest record; on a mismatch it fails with        *)
(* Conflict, appends no record, consumes no revision and leaves the key's  *)
(* latest record as it was.                                                *)
(***************************************************************************)
C1_UpdateIffLastMatches ==
    \A h \in handles, key \in Keys, value \in Values, lastv \in Lasts :
        Records(streams, h, key) # {} =>
            LET r == update(streams, h, key, value, lastv)
                head == Latest(streams, h, key).seq
            IN  /\ (r.outcome = "ok") <=> (lastv = head)
                /\ lastv # head =>
                      /\ r.outcome = "Conflict"
                      /\ r.streams = streams

(***************************************************************************)
(* C2: put(key, value) immediately followed by get(key) returns an Entry   *)
(* whose value is exactly the bytes that were put, the zero-length value   *)
(* included, and whose revision is the number put returned.                *)
(***************************************************************************)
C2_PutThenGet ==
    (res.op = "put" /\ res.outcome = "ok") =>
        LET g == get(streams, res.h, res.key)
        IN  /\ g.outcome = "ok"
            /\ g.entry.value = SomeBytes(res.value)
            /\ g.entry.revision = res.ret

(***************************************************************************)
(* C3: when writers race to update one written key, all expecting the      *)
(* revision that was its head when they sent, exactly one of them succeeds *)
(* and every other one fails with Conflict, whatever the order in which    *)
(* the substrate serves them.                                              *)
(***************************************************************************)
RaceGroup(w) ==
    { v \in Writers : /\ done[v].active
                      /\ done[v].h = done[w].h
                      /\ done[v].key = done[w].key
                      /\ done[v].last = done[w].last }

C3_ExactlyOneWinner ==
    \A w \in Writers :
        (done[w].active /\ done[w].last > 0) =>
            /\ Cardinality({ v \in RaceGroup(w) : done[v].outcome = "ok" }) = 1
            /\ \A v \in RaceGroup(w) : done[v].outcome \in { "ok", "Conflict" }

(***************************************************************************)
(* C4: get returns an Entry only when the key's latest record carries no   *)
(* DEL or PURGE marker; when the latest record is a tombstone, get fails   *)
(* with KeyDeleted carrying the marker kind and an Entry whose revision is *)
(* the tombstone's sequence number.                                        *)
(***************************************************************************)
C4_TombstoneNeverLive ==
    res.op = "get" =>
        LET recs == Records(streams, res.h, res.key)
            m == Latest(streams, res.h, res.key)
        IN  /\ res.outcome = "ok" => (recs # {} /\ ~IsTombstone(m))
            /\ (recs # {} /\ IsTombstone(m)) =>
                  /\ res.outcome = "KeyDeletedError"
                  /\ res.kdop = HdrGet(m.headers, KV_OP)
                  /\ res.entry.revision = m.seq
                  /\ res.entry.key = res.key

\* a get has hit a purge tombstone that follows earlier writes
C4_Witness ==
    /\ res.op = "get"
    /\ res.outcome = "KeyDeletedError"
    /\ res.kdop = KV_PURGE
    /\ res.entry.revision > 1

(***************************************************************************)
(* C5: after delete(key), get(key) fails with KeyDeleted; a put(key, v2)   *)
(* that follows succeeds, and the next get(key) returns a live Entry with  *)
(* value v2 and the revision that put returned.                            *)
(***************************************************************************)
C5_DeleteThenPut ==
    Accepted("delete") =>
        /\ get(streams, res.h, res.key).outcome = "KeyDeletedError"
        /\ \A v2 \in Values :
              LET p == put(streams, res.h, res.key, v2)
                  g == get(p.streams, res.h, res.key)
              IN  /\ p.outcome = "ok"
                  /\ g.outcome = "ok"
                  /\ g.entry.value = SomeBytes(v2)
                  /\ g.entry.revision = p.ret

(***************************************************************************)
(* C6: after purge(key), get(key) fails with KeyDeleted and exactly one    *)
(* record, the purge tombstone, remains for the key's subject, so that     *)
(* status().values counts no earlier revision of the key.                  *)
(***************************************************************************)
C6_PurgeLeavesTombstone ==
    Accepted("purge") =>
        LET g == get(streams, res.h, res.key)
            recs == Records(streams, res.h, res.key)
            others == { i \in 1 .. Len(streams[res.h.stream].msgs) :
                          streams[res.h.stream].msgs[i].subject # res.h.pre \o res.key }
            st == status(streams, res.h)
        IN  /\ res.outcome = "ok"
            /\ g.outcome = "KeyDeletedError"
            /\ g.kdop = KV_PURGE
            /\ Cardinality(recs) = 1
            /\ \A m \in recs : m.seq = res.acked /\ HdrGet(m.headers, KV_OP) = KV_PURGE
            /\ st.outcome = "ok"
            /\ values(st.kvs) = Cardinality(others) + 1

\* a purge has discarded two earlier revisions that retention alone would have kept
C6_Witness ==
    /\ Accepted("purge")
    /\ res.acked = 3
    /\ streams[res.h.stream].config.max_msgs_per_subject # 1
    /\ Len(streams[res.h.stream].msgs) = 1

(***************************************************************************)
(* C7: for a key that was never written in an existing bucket (its subject *)
(* has no record), get fails with the substrate's NotFound error: it       *)
(* returns no Entry and does not report KeyDeleted.                        *)
(***************************************************************************)
C7_NeverWrittenNotFound ==
    (res.op = "get" /\ Exists(streams, res.h) /\ Records(streams, res.h, res.key) = {}) =>
        /\ res.outcome = "NotFoundError"
        /\ res.entry = NoEntry

\* a get of an unwritten key in a bucket that holds another key
C7_Witness ==
    /\ res.op = "get"
    /\ res.outcome = "NotFoundError"
    /\ Exists(streams, res.h)
    /\ Len(streams[res.h.stream].msgs) > 0

(***************************************************************************)
(* C8: whenever the substrate accepts an update, the call returns the      *)
(* sequence number the substrate assigned to the appended record, as put   *)
(* does, and a get that follows reports that number as the revision,       *)
(* together with the updated value.                                        *)
(***************************************************************************)
C8_UpdateReturnsRevision ==
    Accepted("update") =>
        /\ res.outcome = "ok"
        /\ res.ret = res.acked
        /\ LET g == get(streams, res.h, res.key)
           IN  /\ g.entry.revision = res.ret
               /\ res.value # <<>> => g.entry.value = SomeBytes(res.value)

(***************************************************************************)
(* C9: key_value(bucket) has three outcomes, decided by the stream         *)
(* "KV_"+bucket: BucketNotFound when it does not exist, BadBucket when it  *)
(* exists with less than one record per subject, and otherwise a handle    *)
(* bound to that stream and to the prefix "$KV."+bucket+".".  The lookup   *)
(* creates and modifies no stream.                                         *)
(***************************************************************************)
LookupOutcome(S, r) ==
    LET name == << "K", "V", "_" >> \o r.bucket
    IN  IF name \notin DOMAIN S THEN r.outcome = "BucketNotFoundError"
        ELSE IF S[name].config.max_msgs_per_subject < 1 THEN r.outcome = "BadBucketError"
        ELSE /\ r.outcome = "ok"
             /\ r.kv.name = r.bucket
             /\ r.kv.stream = name
             /\ r.kv.pre = << "$", "K", "V", "." >> \o r.bucket \o << "." >>

C9_LookupOutcomes ==
    [][ (res'.op = "key_value" /\ res' # res) =>
            (streams' = streams /\ LookupOutcome(streams, res')) ]_vars

\* a lookup has refused a stream that keeps less than one record per subject
C9_Witness == res.op = "key_value" /\ res.outcome = "BadBucketError"

(***************************************************************************)
(* C10: after bucket B has been created, delete_key_value(B) destroys the  *)
(* stream "KV_"+B, so that a lookup of B that follows fails with           *)
(* BucketNotFound.                                                         *)
(***************************************************************************)
C10_DeleteDestroysBucket ==
    res.op = "delete_key_value" =>
        /\ (StreamPrefix \o res.bucket) \notin DOMAIN streams
        /\ key_value(streams, res.bucket).outcome = "BucketNotFoundError"

(***************************************************************************)
(* C11: creating a bucket with history unset or zero yields a stream that  *)
(* keeps exactly 1 record per subject, and with history N >= 1 one that    *)
(* keeps exactly N; status().history of the new bucket reports that same   *)
(* number.                                                                 *)
(***************************************************************************)
C11_HistoryDefault ==
    \A params \in CreateParams :
        (params.history.none \/ params.history.val >= 0) =>
            LET r == create_key_value(streams, params)
                n == IF params.history.none \/ params.history.val = 0
                     THEN 1 ELSE params.history.val
                st == status(r.streams, r.kv)
            IN  r.outcome = "ok" =>
                    /\ r.streams[r.kv.stream].config.max_msgs_per_subject = n
                    /\ st.outcome = "ok"
                    /\ history(st.kvs) = n

\* a bucket has been created with history zero (the input that also sets a ttl)
C11_Witness ==
    /\ res.op = "create_key_value"
    /\ res.outcome = "ok"
    /\ streams[res.kv.stream].config.max_msgs_per_subject = 1
    /\ ~streams[res.kv.stream].config.max_age.none

(***************************************************************************)
(* C12: within one bucket, the revisions that put and update return are    *)
(* strictly increasing in the order in which the substrate accepts the     *)
(* appends, across all keys: each returned revision is greater than every  *)
(* sequence number the stream handed out before and is the stream's new    *)
(* last one.  An update that does not succeed returns no revision and      *)
(* consumes none.                                                          *)
(***************************************************************************)
C12_RevisionsIncrease ==
    \A h \in handles, key \in Keys, value \in Values :
        Exists(streams, h) =>
            LET before == streams[h.stream].last_seq
                p == put(streams, h, key, value)
            IN  /\ p.outcome = "ok" =>
                      /\ p.ret > before
                      /\ p.streams[h.stream].last_seq = p.ret
                /\ \A lastv \in Lasts :
                      LET u == update(streams, h, key, value, lastv)
                      IN  IF u.outcome = "ok"
                          THEN /\ u.ret > before
                               /\ u.streams[h.stream].last_seq = u.ret
                          ELSE /\ u.ret = 0
                               /\ u.streams = streams

(***************************************************************************)
(* C13: a record with a zero-length payload and no marker is Live: after   *)
(* put(key, b"") get(key) returns an Entry and does not fail KeyDeleted.   *)
(* Only a DEL or PURGE marker on the latest record, never an empty         *)
(* payload, makes a read report the key deleted.                           *)
(***************************************************************************)
C13_EmptyIsLive ==
    /\ (res.op = "put" /\ res.outcome = "ok" /\ res.value = <<>>) =>
            LET g == get(streams, res.h, res.key)
            IN  /\ g.outcome = "ok"
                /\ g.entry.key = res.key
                /\ g.entry.revision = res.ret
    /\ \A h \in handles, key \in Keys :
            LET g == get(streams, h, key)
                recs == Records(streams, h, key)
            IN  /\ g.outcome = "KeyDeletedError" =>
                      (recs # {} /\ IsTombstone(Latest(streams, h, key)))
                /\ (recs # {} /\ ~IsTombstone(Latest(streams, h, key))) =>
                      g.outcome = "ok"

\* a get has returned the Entry of a key whose latest record is an empty put
C13_Witness ==
    /\ res.op = "get"
    /\ res.outcome = "ok"
    /\ Records(streams, res.h, res.key) # {}
    /\ Latest(streams, res.h, res.key).data = <<>>
    /\ res.entry.revision > 1

(***************************************************************************)
(* C14: a bucket created with ttl = t seconds, t a positive integer, has a *)
(* stream whose max age is t * 1,000,000,000 ticks, and status().ttl of    *)
(* that bucket converts back and reports t seconds.                        *)
(***************************************************************************)
\* the ttls given, in seconds
Ttls == { 1, 2 }

C14_TtlRoundTrip ==
    \A b \in CreateNames, t \in Ttls, hist \in { None, Some(0), Some(2) } :
        LET params == [bucket |-> b, history |-> hist, ttl |-> Some(t),
                       replicas |-> None]
            r == create_key_value(streams, params)
            st == status(r.streams, r.kv)
        IN  r.outcome = "ok" =>
                /\ r.streams[r.kv.stream].config.max_age = Some(t * 1000000000)
                /\ st.outcome = "ok"
                /\ ttl(st.kvs) = Float(t, 0)

\* status has been asked of a bucket that was created with a ttl of 2 seconds
C14_Witness ==
    /\ res.op = "status"
    /\ res.outcome = "ok"
    /\ ttl(res.kvs) = Float(2, 0)

(***************************************************************************)
(* C15: no handle is ever returned, by key_value or by create_key_value,   *)
(* for a stream that keeps less than one record per subject: whatever the  *)
(* history given to create (unset, zero, positive or negative) and         *)
(* whatever stream a lookup finds, the call fails or the stream the handle *)
(* is bound to has a history of at least 1.                                *)
(***************************************************************************)
C15_NoHandleBelowOne ==
    (res.op \in { "create_key_value", "key_value" } /\ res.outcome = "ok") =>
        /\ res.kv \in handles
        /\ Exists(streams, res.kv)
        /\ streams[res.kv.stream].config.max_msgs_per_subject >= 1

(***************************************************************************)
(* C16: the state of a key is decided by its latest record alone.  From    *)
(* any state of the key (absent, Live, Deleted, Purged) a put, and an      *)
(* update that expects the head revision, succeed and make the key Live; a *)
(* delete makes it Deleted, also when the key was never written (get then  *)
(* fails KeyDeleted, not NotFound); a purge makes it Purged.  In           *)
(* particular an update whose last is the revision of a tombstone succeeds *)
(* and brings the key back to Live.                                        *)
(***************************************************************************)
C16_LatestDecides ==
    \A h \in handles, key \in Keys :
        Exists(streams, h) =>
            LET d == delete(streams, h, key)
                gd == get(d.streams, h, key)
                x == purge(streams, h, key)
                gx == get(x.streams, h, key)
            IN  /\ d.outcome = "ok"
                /\ gd.outcome = "KeyDeletedError" /\ gd.kdop = KV_DEL
                /\ x.outcome = "ok"
                /\ gx.outcome = "KeyDeletedError" /\ gx.kdop = KV_PURGE
                /\ \A value \in Values :
                      LET p == put(streams, h, key, value)
                          u == update(streams, h, key, value, HeadOf(streams, h, key))
                      IN  /\ p.outcome = "ok"
                          /\ get(p.streams, h, key).outcome = "ok"
                          /\ u.outcome = "ok"
                          /\ get(u.streams, h, key).outcome = "ok"

(***************************************************************************)
(* C17: delete(key) only appends: it adds exactly one record, with a       *)
(* zero-length payload, the marker DEL and no rollup marker, and removes   *)
(* or rewrites no record that was there, but for what the history          *)
(* retention of the key's subject drops (its oldest records beyond the     *)
(* limit).  purge(key) appends a record with the marker PURGE and the      *)
(* rollup scope "sub", which discards every earlier record of that one     *)
(* subject.                                                                *)
(***************************************************************************)
\* the records the bucket's stream retains for every subject but the key's
Others(S, h, key) ==
    { S[h.stream].msgs[i] : i \in 1 .. Len(S[h.stream].msgs) } \ Records(S, h, key)

\* the record the call appended: the last one of the stream
Appended(S, h) == S[h.stream].msgs[Len(S[h.stream].msgs)]

SubstrateCall(op) ==
    CASE op = "get" -> "get_last_msg"
      [] op \in { "put", "update", "delete", "purge" } -> "publish"
      [] op \in { "status", "key_value" } -> "stream_info"
      [] op = "create_key_value" -> "add_stream"
      [] op = "delete_key_value" -> "delete_stream"

C18_OneSubstrateCall ==
    res.op # "" =>
        /\ Len(res.calls) = 1
        /\ res.calls[1] = SubstrateCall(res.op)

\* a get that failed on a missing record has asked the substrate just once
C18_Witness ==
    /\ res.op = "get"
    /\ res.outcome = "NotFoundError"
    /\ res.calls = << "get_last_msg" >>

(***************************************************************************)
(* C19: within one bucket, put, update, delete and purge on a key leave    *)
(* the records of every other key as they were: a get of the other key     *)
(* gives the same value, revision or error before and after.  The rollup   *)
(* of purge(key) discards records of that key's subject only.              *)
(***************************************************************************)
\* what the caller of get sees
Seen(g) == [outcome |-> g.outcome, entry |-> g.entry, kdop |-> g.kdop]

C19_OtherKeysUntouched ==
    \A h \in handles, key \in Keys, other \in Keys :
        (Exists(streams, h) /\ other # key) =>
            LET was == Seen(get(streams, h, other))
                recs == Records(streams, h, other)
                Same(r) ==
                    \/ r.streams = streams
                    \/ /\ Seen(get(r.streams, h, other)) = was
                       /\ Records(r.streams, h, other) = recs
            IN  /\ Same(delete(streams, h, key))
                /\ Same(purge(streams, h, key))
                /\ \A value \in Values :
                      /\ Same(put(streams, h, key, value))
                      /\ \A lastv \in NearHead(streams, h, key) :
                            Same(update(streams, h, key, value, lastv))

\* a purge of one key has gone through while the other key holds a live record
C19_Witness ==
    /\ Accepted("purge")
    /\ \E other \in Keys \ { res.key } :
          /\ Records(streams, res.h, other) # {}
          /\ get(streams, res.h, other).outcome = "ok"
          /\ get(streams, res.h, other).entry.revision < res.acked

(***************************************************************************)
(* C20: buckets are isolated.  For distinct bucket names B1 and B2, names  *)
(* that hold "." included ("a" and "a.b"), and any keys, the subject a     *)
(* write through B1's handle goes to differs from every subject derived    *)
(* for a key of B2 and is not covered by the subject filter                *)
(* "$KV."+B2+".>" of B2's stream, so that the record is never stored in    *)
(* B2's stream nor read through a handle of B2.                            *)
(***************************************************************************)
\* the handle and the subject filter create_key_value derives for a bucket name
HandleOf(bucket) ==
    create_key_value([n \in {} |-> 0],
        [bucket |-> bucket, history |-> None, ttl |-> None, replicas |-> None]).kv
FilterOf(bucket) ==
    StreamConfig(Normalised(
        [bucket |-> bucket, history |-> None, ttl |-> None, replicas |-> None])).subjects

C20_BucketsIsolated ==
    (res.op = "put" /\ res.acked > 0) =>
        \A B2 \in IsoNames \ { res.h.name } :
            LET subject == res.h.pre \o res.key
                h2 == HandleOf(B2)
            IN  /\ \A k2 \in IsoKeys : subject # h2.pre \o k2
                /\ \A f \in FilterOf(B2) : ~Matches(f, subject)
                /\ \A k2 \in IsoKeys :
                      get_last_msg(streams, h2.stream, h2.pre \o k2).msg.subject # subject
                /\ Exists(streams, h2) =>
                      \A i \in 1 .. Len(streams[h2.stream].msgs) :
                          streams[h2.stream].msgs[i].subject # subject

====
